---- MODULE Spec2Model ----
(***************************************************************************)
(* A model of the zap core that forwards log entries to Sentry.            *)
(*                                                                         *)
(* src/sentry.go holds two variants of the adapter:                        *)
(*   "event" (lines 1-126):   Write builds a sentry.Event and captures it  *)
(*                            on a clone of the current hub;               *)
(*   "log"   (lines 128-420): Write builds a sentry.LogEntry on the        *)
(*                            instance's sentry.Logger and emits it.       *)
(* The variable `variant` says which of the two a behaviour runs.          *)
(***************************************************************************)
EXTENDS Integers, Sequences, FiniteSets, TLC

VARIABLES
    variant,   \* "event" | "log" | "coerce": which code a behaviour runs
    client,    \* TRUE iff sentry.Init has configured a backend client
    cores,     \* the SentryCore instances built so far; cores[1] is NewSentryCore's
    pc,        \* pc[p]: where goroutine p stands
    loc,       \* loc[p]: the locals of the call goroutine p is in
    ret,       \* ret[p]: what p's last Write or Sync returned
    captured,  \* how many records the backend transport has received
    flushes,   \* detached flushSentry goroutines still running
    cin,       \* input of the value coercion under check
    cout,      \* what applyValue handed to its sink for cin
    hub        \* the scope of the global hub, sentry.CurrentHub(): tags and span

vars == <<variant, client, cores, pc, loc, ret, captured, flushes, cin, cout, hub>>

----------------------------------------------------------------------------
(* zapcore levels, as sentrySeverity and logEntryForLevel switch on them.  *)

DebugLevel == -1
InfoLevel == 0
WarnLevel == 1
ErrorLevel == 2
DPanicLevel == 3
PanicLevel == 4
FatalLevel == 5
\* a level value no case of the switches names (zapcore.Level is an int8)
UnknownLevel == 6

Levels == DebugLevel .. UnknownLevel

\* zapcore.Level implements LevelEnabler: Enabled(lvl) is lvl >= l.
Enabled(min, lvl) == lvl >= min

\* event variant: zap level -> sentry.Level
sentrySeverity(lvl) ==
    CASE lvl = DebugLevel -> "debug"
      [] lvl = InfoLevel -> "info"
      [] lvl = WarnLevel -> "warning"
      [] lvl = ErrorLevel -> "error"
      [] lvl = DPanicLevel -> "fatal"
      [] lvl = PanicLevel -> "fatal"
      [] lvl = FatalLevel -> "fatal"
      [] OTHER -> "fatal"

\* log variant: the sentry.Logger method picked for the level; the severity
\* of the entry is the method's (logger.Warn() is the backend's warning).
logEntryForLevel(lvl) ==
    CASE lvl = DebugLevel -> "debug"
      [] lvl = InfoLevel -> "info"
      [] lvl = WarnLevel -> "warning"
      [] lvl = ErrorLevel -> "error"
      [] lvl \in {DPanicLevel, PanicLevel, FatalLevel} -> "error"
      [] OTHER -> "error"

----------------------------------------------------------------------------
(* Unsigned 64-bit values.  TLC's integers are 32 bits wide, so a uint64   *)
(* is four 16-bit limbs, most significant first, and the arithmetic the    *)
(* code relies on (comparison with math.MaxInt64, the int64 conversion,    *)
(* the decimal rendering of fmt.Sprint) is done limb by limb.              *)

LimbBase == 2 ^ 16
Limbs == 1 .. 4
Zero64 == <<0, 0, 0, 0>>
\* math.MaxInt64 = 2^63 - 1
MaxInt64 == <<(LimbBase \div 2) - 1, LimbBase - 1, LimbBase - 1, LimbBase - 1>>

\* a > b on uint64
GtU64(a, b) ==
    \E i \in Limbs : a[i] > b[i] /\ \A j \in 1 .. (i - 1) : a[j] = b[j]

\* l \div 10 and l % 10, by long division from the high limb down
DivMod10(l) ==
    LET r1 == l[1] % 10
        c2 == r1 * LimbBase + l[2]
        r2 == c2 % 10
        c3 == r2 * LimbBase + l[3]
        r3 == c3 % 10
        c4 == r3 * LimbBase + l[4]
    IN  [q |-> <<l[1] \div 10, c2 \div 10, c3 \div 10, c4 \div 10>>, r |-> c4 % 10]

RECURSIVE DecDigits(_)
DecDigits(l) ==
    IF l = Zero64 THEN <<>>
    ELSE LET d == DivMod10(l) IN Append(DecDigits(d.q), d.r)

\* fmt.Sprint of an unsigned integer: the string of its decimal digits (a
\* sequence of digits here), "0" for zero
SprintU64(l) == IF l = Zero64 THEN <<0>> ELSE DecDigits(l)

\* 2^64 - l for l > 0: the magnitude of a negative two's-complement int64
TwosNeg(l) ==
    LET n4 == (LimbBase - 1 - l[4]) + 1
        n3 == (LimbBase - 1 - l[3]) + (n4 \div LimbBase)
        n2 == (LimbBase - 1 - l[2]) + (n3 \div LimbBase)
        n1 == (LimbBase - 1 - l[1]) + (n2 \div LimbBase)
    IN  <<n1 % LimbBase, n2 % LimbBase, n3 % LimbBase, n4 % LimbBase>>

\* the Go conversion int64(v) of a uint64: the same 64 bits read as two's
\* complement, given here as sign and magnitude
ToInt64(l) ==
    IF l[1] >= LimbBase \div 2
    THEN [neg |-> TRUE, mag |-> TwosNeg(l)]
    ELSE [neg |-> FALSE, mag |-> l]

----------------------------------------------------------------------------
(* Value coercion.  A value is its dynamic Go type and a payload:          *)
(*   uint, uint8..uint64: limbs;  int64: sign and magnitude;  the others:  *)
(*   an opaque payload that the sink receives as the code passes it on.    *)

Val(t, v) == [t |-> t, v |-> v]

Call(set, v) == [set |-> set, val |-> v]

\* case uint / case uint64 of applyValue: the sink calls made, in order
applyUnsignedDropCheck(v) == <<Call("SetInt64", ToInt64(v))>>

\* the same without the "return" that follows SetString
applyUnsignedFallThrough(v) ==
    IF GtU64(v, MaxInt64)
    THEN <<Call("SetString", SprintU64(v)), Call("SetInt64", ToInt64(v))>>
    ELSE <<Call("SetInt64", ToInt64(v))>>

applyUnsigned(v) ==
    IF GtU64(v, MaxInt64)
    THEN <<Call("SetString", SprintU64(v))>>
    ELSE <<Call("SetInt64", ToInt64(v))>>

\* applyValue(value, sink): the sink calls made for the value, in order
applyValue(value) ==
    CASE value.t = "string" -> <<Call("SetString", value.v)>>
      [] value.t = "[]byte" -> <<Call("SetString", value.v)>>
      [] value.t = "bool" -> <<Call("SetBool", value.v)>>
      [] value.t \in {"int", "int8", "int16", "int32"} -> <<Call("SetInt", value.v)>>
      [] value.t = "int64" -> <<Call("SetInt64", value.v)>>
      [] value.t = "uint" -> applyUnsigned(value.v)
      [] value.t \in {"uint8", "uint16", "uint32"} -> <<Call("SetInt64", ToInt64(value.v))>>
      [] value.t = "uint64" -> applyUnsigned(value.v)
      [] value.t \in {"float32", "float64"} -> <<Call("SetFloat64", value.v)>>
      [] value.t = "time.Time" -> <<Call("SetString", [format |-> "RFC3339Nano", of |-> value.v])>>
      [] value.t = "time.Duration" -> <<Call("SetString", [string |-> value.v])>>
      [] value.t = "error" -> <<Call("SetString", value.v)>>
      [] value.t = "fmt.Stringer" -> <<Call("SetString", [string |-> value.v])>>
      [] OTHER -> <<Call("SetString", [sprint |-> value.v])>>

\* attributeSink / logEntrySink: the attribute a sink call leaves behind
sinkKind(call) ==
    CASE call.set = "SetString" -> "string"
      [] call.set = "SetBool" -> "bool"
      [] call.set = "SetInt" -> "int64"
      [] call.set = "SetInt64" -> "int64"
      [] call.set = "SetFloat64" -> "float64"

\* the sink keeps what its last call set
attributeFromValue(value) ==
    LET calls == applyValue(value)
        call == calls[Len(calls)]
    IN  [kind |-> sinkKind(call), val |-> call.val]

----------------------------------------------------------------------------
(* Fields, entries and the maps the encoders fill.                         *)

EmptyMap == [k \in {} |-> TRUE]

Put(m, k, v) == [x \in DOMAIN m \cup {k} |-> IF x = k THEN v ELSE m[x]]

\* "for k, v := range b { a[k] = v }"
MergeKeepOld(a, b) == [x \in DOMAIN a \cup DOMAIN b |-> IF x \in DOMAIN a THEN a[x] ELSE b[x]]

Merge(a, b) == [x \in DOMAIN a \cup DOMAIN b |-> IF x \in DOMAIN b THEN b[x] ELSE a[x]]

\* context handles: context.Background() and the contexts of two spans
Background == "bg"
Spans == {"span1", "span2"}
\* the scope of a hub: its tags and the span whose trace its events get,
\* "none" when no span is set on it
EmptyScope == [tags |-> EmptyMap, trace |-> "none"]

\* zap.String(key, s)
zapString(k, str) == [key |-> k, type |-> "StringType", val |-> Val("string", str), iface |-> "nil"]
\* zap.Field{Key: "ctx", Type: zapcore.SkipType, Interface: ctx}
ctxField(h) == [key |-> "ctx", type |-> "SkipType", val |-> Val("nil", "nil"), iface |-> h]
\* zap.Skip(): a SkipType field that carries no context
zapSkip == [key |-> "skip", type |-> "SkipType", val |-> Val("nil", "nil"), iface |-> "nil"]

\* f.AddTo(enc) on a MapObjectEncoder: a SkipType field adds nothing
AddTo(enc, f) == IF f.type = "SkipType" THEN enc ELSE Put(enc, f.key, f.val)

\* "for _, f := range fields { f.AddTo(enc) }" of addFields (event variant)
RECURSIVE encodeAll(_)
encodeAll(fields) ==
    IF fields = <<>> THEN EmptyMap
    ELSE AddTo(encodeAll(SubSeq(fields, 1, Len(fields) - 1)), fields[Len(fields)])

\* "v, ok := f.Interface.(context.Context); ok && v != nil"
IsCarrier(f) == f.type = "SkipType" /\ f.iface # "nil"

\* encodeFields (log variant): the context of the last carrier ("nil" when
\* there is none) and the map of the other fields
RECURSIVE encodeFields(_)
encodeFields(fields) ==
    IF fields = <<>> THEN [ctx |-> "nil", values |-> EmptyMap]
    ELSE LET rest == encodeFields(SubSeq(fields, 1, Len(fields) - 1))
             f == fields[Len(fields)]
         IN  IF f.type = "SkipType"
             THEN [ctx |-> IF IsCarrier(f) THEN f.iface ELSE rest.ctx, values |-> rest.values]
             ELSE [ctx |-> rest.ctx, values |-> AddTo(rest.values, f)]

\* the orders in which "for k, v := range values" may visit the keys
KeyOrders(m) ==
    {o \in [1 .. Cardinality(DOMAIN m) -> DOMAIN m] :
        \A i, j \in DOMAIN o : i # j => o[i] # o[j]}

\* attributesFromValues, visiting the keys in the order o
attributesFromValues(values, o) ==
    [i \in DOMAIN o |-> [key |-> o[i], value |-> attributeFromValue(values[o[i]])]]

\* logger.SetAttributes(attrs...): a later attribute replaces an earlier one
RECURSIVE SetAttributes(_)
SetAttributes(attrs) ==
    IF attrs = <<>> THEN EmptyMap
    ELSE Put(SetAttributes(SubSeq(attrs, 1, Len(attrs) - 1)),
             attrs[Len(attrs)].key, attrs[Len(attrs)].value)

\* zapcore.Entry
Entry(lvl, msg, name, defined, stack) ==
    [level |-> lvl, message |-> msg, loggerName |-> name,
     caller |-> IF defined THEN [defined |-> TRUE, file |-> "main.go", line |-> 42]
                ELSE [defined |-> FALSE, file |-> "", line |-> 0],
     stack |-> stack]

----------------------------------------------------------------------------
(* Bounds and inputs.                                                      *)

MaxCores == 3
MaxEvents == 2
MaxFlushes == 1

Procs == {1, 2}

\* the minimum levels the options are tried with
MinLevels == {DebugLevel, InfoLevel, ErrorLevel}

\* field lists handed to With and to a log call: none, plain fields (one
\* under the name "logger") next to a skipped one, one carrier with a key
\* given twice, two carriers
FieldLists ==
    { <<>>,
      <<zapSkip, zapString("id", "b"), zapString("logger", "usr")>>,
      <<ctxField("span1"), zapString("id", "b"), zapString("id", "a")>>,
      <<ctxField("span1"), ctxField("span2"), zapSkip>> }

\* the field lists a logger is derived with: those that hold a field
WithFieldLists == FieldLists \ {<<>>}

\* entries: every level, at error level the optional parts, and an info
\* entry with all of them
Entries ==
    {Entry(l, "m1", "", FALSE, "") : l \in Levels}
    \cup {Entry(ErrorLevel, "m1", "app", TRUE, ""), Entry(ErrorLevel, "m1", "", FALSE, "stk"),
          Entry(ErrorLevel, "m2", "app", TRUE, "stk"), Entry(InfoLevel, "m2", "app", TRUE, "stk")}

\* what two goroutines running side by side are given
ConcFieldLists ==
    { <<zapString("id", "a")>>,
      <<zapString("func", "test"), ctxField("span2")>> }

ConcLogFields == {<<zapString("func", "test"), ctxField("span2")>>}

ConcEntries == {Entry(InfoLevel, "m2", "app", TRUE, "stk")}

----------------------------------------------------------------------------
(* Instances.                                                              *)

\* WithMinLevel(level) / WithStackTrace(): what an option sets
WithMinLevel(core, lvl) == [core EXCEPT !.min = lvl]
WithStackTrace(core) == [core EXCEPT !.stackTrace = TRUE]

\* NewSentryCore: minimum ErrorLevel, no fields, then the options.  The
\* log-entry variant takes a context: nil becomes context.Background(), any
\* other is kept and is the context of the instance's logger; the event
\* variant takes none.
\* from, batch and seen are history: the parent, the fields of the With call
\* that built the instance, and how many instances existed when it began.
NewSentryCore(v, ctx, useMin, lvl, useStack) ==
    LET s0 == [min |-> ErrorLevel, stackTrace |-> FALSE, fields |-> EmptyMap,
               attributes |-> <<>>,
               ctx |-> IF v = "log"
                       THEN (IF ctx = "nil" THEN Background ELSE ctx)
                       ELSE "none",
               from |-> 0, batch |-> <<>>, seen |-> 0]
        s1 == IF useMin THEN WithMinLevel(s0, lvl) ELSE s0
    IN  IF useStack THEN WithStackTrace(s1) ELSE s1

Idle == [op |-> "none"]
NoReturn == [op |-> "none", err |-> "none"]
Returned(op, err) == [op |-> op, err |-> err]
NoValue == Val("none", "none")
NoCall == <<>>

\* the contexts NewSentryCore is called with: nil, context.Background() and
\* the context of a span
RootContexts == {"nil", Background, "span1"}

Init ==
    /\ variant \in {"event", "log"}
    /\ client \in BOOLEAN
    /\ \E ctx \in RootContexts, useMin \in BOOLEAN, lvl \in MinLevels, useStack \in BOOLEAN :
          /\ (~useMin => lvl = ErrorLevel)
          /\ (variant = "event" => ctx = "nil")
          /\ cores = <<NewSentryCore(variant, ctx, useMin, lvl, useStack)>>
    /\ pc = [p \in Procs |-> "idle"]
    /\ loc = [p \in Procs |-> Idle]
    /\ ret = [p \in Procs |-> NoReturn]
    /\ captured = 0
    /\ flushes = 0
    /\ cin = NoValue
    /\ cout = NoCall
    /\ hub = EmptyScope

----------------------------------------------------------------------------
(* With.                                                                   *)

\* event variant, addFields: the struct literal it returns names only
\* LevelEnabler and fields, so stackTrace is the zero value
addFields(s, snap, fields) ==
    [min |-> s.min, stackTrace |-> FALSE,
     fields |-> Merge(snap.fields, encodeAll(fields)),
     attributes |-> <<>>, ctx |-> "none"]

\* log variant, With: o is the order in which the encoded values are visited
withLog(s, snap, fields, o) ==
    LET enc == encodeFields(fields)
    IN  [min |-> s.min, stackTrace |-> s.stackTrace, fields |-> EmptyMap,
         attributes |-> snap.attributes \o attributesFromValues(enc.values, o),
         ctx |-> IF enc.ctx # "nil" THEN enc.ctx ELSE snap.ctx]

\* the instance With returns is a new one: s itself is left as it was
newInstanceAliased(cs, s, child) ==
    Append([cs EXCEPT ![s].fields = child.fields, ![s].attributes = child.attributes], child)

newInstance(cs, s, child) == Append(cs, child)

\* With is entered on one of the instances `on`: the receiver's map
\* (attributes, context) is copied
WithCall(p, lists, on) ==
    /\ pc[p] = "idle"
    /\ Len(cores) < MaxCores
    /\ \E s \in on, fields \in lists :
          loc' = [loc EXCEPT ![p] = [op |-> "With", s |-> s, fields |-> fields,
                                     snap |-> cores[s], seen |-> Len(cores)]]
    /\ pc' = [pc EXCEPT ![p] = "with"]
    /\ ret' = [ret EXCEPT ![p] = NoReturn]
    /\ UNCHANGED <<variant, client, cores, captured, flushes, cin, cout, hub>>

\* the fields are encoded and merged into the copy; the new instance is returned
WithReturn(p) ==
    /\ pc[p] = "with"
    /\ LET l == loc[p]
           s == cores[l.s]
           hist == [from |-> l.s, batch |-> l.fields, seen |-> l.seen]
       IN  IF variant = "event"
           THEN cores' = newInstance(cores, l.s, addFields(s, l.snap, l.fields) @@ hist)
           ELSE \E o \in KeyOrders(encodeFields(l.fields).values) :
                   cores' = newInstance(cores, l.s, withLog(s, l.snap, l.fields, o) @@ hist)
    /\ pc' = [pc EXCEPT ![p] = "idle"]
    /\ loc' = [loc EXCEPT ![p] = Idle]
    /\ UNCHANGED <<variant, client, ret, captured, flushes, cin, cout, hub>>

----------------------------------------------------------------------------
(* Check, Write and Sync.                                                  *)

\* SentryCore.Check: whether the core is added to the checked entry
CheckStrict(s, entry) == entry.level > s.min

Check(s, entry) == Enabled(s.min, entry.level)

\* the depth fallback of the event variant's Write
FallbackMaxDepth == 10
\* localHub.Client().Options().MaxErrorDepth: the client is configured with 10
ClientMaxErrorDepth == 10

\* "maxDepth := 10; if localHub.Client() != nil { maxDepth = ...MaxErrorDepth }";
\* ok = FALSE stands for the dereference of a nil client.
maxDepthNoNilCheck(hasClient) ==
    IF hasClient THEN [ok |-> TRUE, depth |-> ClientMaxErrorDepth] ELSE [ok |-> FALSE, depth |-> 0]

maxDepth(hasClient) ==
    IF hasClient THEN [ok |-> TRUE, depth |-> ClientMaxErrorDepth]
    ELSE [ok |-> TRUE, depth |-> FallbackMaxDepth]

\* event.SetException(errors.New(msg), maxDepth): one exception per error of
\* the chain, up to maxDepth; errors.New wraps nothing
SetException(msg, depth) ==
    IF depth >= 1
    THEN <<[type |-> "*errors.errorString", value |-> msg, stacktrace |-> "captured"]>>
    ELSE <<>>

\* event variant: whether Write attaches the exception
attachesExceptionAnyLevel(s, entry) == s.stackTrace

attachesException(s, entry) == entry.level >= ErrorLevel /\ s.stackTrace

\* event variant: the sentry.Event Write hands to localHub.CaptureEvent
eventRecord(s, entry, fields, hasClient, scope) ==
    LET clone == addFields(s, s, fields)
    IN  [message |-> entry.message,
         sev |-> sentrySeverity(entry.level),
         extra |-> clone.fields,
         fingerprint |-> <<entry.message>>,
         logger |-> entry.loggerName,
         tags |-> scope.tags,
         exception |-> IF attachesException(s, entry)
                       THEN SetException(entry.message, maxDepth(hasClient).depth)
                       ELSE <<>>,
         trace |-> scope.trace]

\* event variant: Write panics iff the depth lookup dereferences nil
eventPanics(s, entry, hasClient) ==
    attachesException(s, entry) /\ ~maxDepth(hasClient).ok

\* log variant: whether Write adds the "stacktrace" attribute
attachesStack(s, entry) == s.stackTrace /\ entry.level >= ErrorLevel

\* log variant: the attributes Write sets on the log entry, in its order
entryAttributes(s, entry, values) ==
    LET a0 == [k \in DOMAIN values |-> attributeFromValue(values[k])]
        a1 == IF entry.loggerName # ""
              THEN Put(a0, "logger", [kind |-> "string", val |-> entry.loggerName]) ELSE a0
        a2 == IF entry.caller.defined
              THEN Put(Put(a1, "caller.file", [kind |-> "string", val |-> entry.caller.file]),
                       "caller.line", [kind |-> "int64", val |-> entry.caller.line])
              ELSE a1
    IN  IF attachesStack(s, entry)
        THEN Put(a2, "stacktrace",
                 [kind |-> "string",
                  val |-> IF entry.stack = "" THEN "debug.Stack()" ELSE entry.stack])
        ELSE a2

\* log variant: the log record logEntry.Emit(entry.Message) produces; the
\* entry starts from the logger's context and attributes
logRecord(s, entry, fields) ==
    LET enc == encodeFields(fields)
    IN  [message |-> entry.message,
         sev |-> logEntryForLevel(entry.level),
         extra |-> Merge(SetAttributes(s.attributes), entryAttributes(s, entry, enc.values)),
         fingerprint |-> <<>>,
         logger |-> "",
         tags |-> EmptyMap,
         exception |-> <<>>,
         trace |-> IF enc.ctx # "nil" THEN enc.ctx ELSE s.ctx]

\* goroutines in a log call that has not yet reached the hand-off
Pending == Cardinality({q \in Procs : pc[q] \in {"checked", "scoped"}})

\* a log call reaches the core: the logger asks Check
CheckCall(p, entries, lists) ==
    /\ pc[p] = "idle"
    /\ captured + Pending < MaxEvents
    /\ flushes < MaxFlushes
    /\ \E s \in 1 .. Len(cores), entry \in entries, fields \in lists :
          loc' = [loc EXCEPT ![p] = [op |-> "Log", s |-> s, entry |-> entry, fields |-> fields,
                                     added |-> Check(cores[s], entry)]]
    /\ pc' = [pc EXCEPT ![p] = "checked"]
    /\ ret' = [ret EXCEPT ![p] = NoReturn]
    /\ UNCHANGED <<variant, client, cores, captured, flushes, cin, cout, hub>>

\* Check did not add the core: the logger never calls its Write
Dropped(p) ==
    /\ pc[p] = "checked"
    /\ ~loc[p].added
    /\ pc' = [pc EXCEPT ![p] = "idle"]
    /\ loc' = [loc EXCEPT ![p] = Idle]
    /\ UNCHANGED <<variant, client, cores, ret, captured, flushes, cin, cout, hub>>

\* what Write leaves of the instances: the clone (event variant) and the log
\* entry (log variant) it builds from the fields are locals, s is only read
writeKeepsFields(cs, s, fields) ==
    [cs EXCEPT ![s].fields = Merge(@, encodeAll(fields)),
               ![s].attributes = @ \o attributesFromValues(encodeFields(fields).values,
                                        CHOOSE o \in KeyOrders(encodeFields(fields).values) : TRUE),
               ![s].ctx = IF variant = "log" /\ encodeFields(fields).ctx # "nil"
                          THEN encodeFields(fields).ctx ELSE @]

writeLeaves(cs, s, fields) == cs

\* sentry.CurrentHub().Clone(): a hub of its own, with a copy of the scope;
\* without the Clone the local hub is the global one
NoClone(h) == [private |-> FALSE, scope |-> h]

Clone(h) == [private |-> TRUE, scope |-> h]

\* scope.SetTag("file", ...); scope.SetTag("line", strconv.Itoa(...))
callerTags(entry) == [file |-> entry.caller.file, line |-> ToString(entry.caller.line)]

\* the scope of a local hub
scopeOf(lh) == IF lh.private THEN lh.scope ELSE hub

\* the application starts span sp between two calls of the logger, as the
\* span test does before it logs.  Whether sentry.StartSpan sets the span on
\* the scope of the current hub is sentry-go's matter and differs between
\* its versions and options, so both outcomes are taken.  Only the event
\* variant reads that scope.
StartSpan(p, spans) ==
    /\ variant = "event"
    /\ pc[p] = "idle"
    /\ \E sp \in spans, onScope \in BOOLEAN :
          hub' = IF onScope THEN [hub EXCEPT !.trace = sp] ELSE hub
    /\ UNCHANGED <<variant, client, cores, pc, loc, ret, captured, flushes, cin, cout>>

\* event variant, Write up to the end of ConfigureScope: the hub is cloned
\* and the caller tags are set on the scope of the clone
ConfigureScope(p) ==
    /\ variant = "event"
    /\ pc[p] = "checked"
    /\ loc[p].added
    /\ LET lh == Clone(hub)
       IN  IF lh.private
           THEN /\ loc' = [loc EXCEPT ![p] =
                              loc[p] @@ [hub |-> [lh EXCEPT !.scope.tags = Merge(@, callerTags(loc[p].entry))]]]
                /\ hub' = hub
           ELSE /\ loc' = [loc EXCEPT ![p] = loc[p] @@ [hub |-> lh]]
                /\ hub' = [hub EXCEPT !.tags = Merge(@, callerTags(loc[p].entry))]
    /\ pc' = [pc EXCEPT ![p] = "scoped"]
    /\ UNCHANGED <<variant, client, cores, ret, captured, flushes, cin, cout>>

\* Write up to and including the hand-off (CaptureEvent / Emit); without a
\* client the hub and the logger drop the record
Write(p) ==
    /\ pc[p] = IF variant = "event" THEN "scoped" ELSE "checked"
    /\ loc[p].added
    /\ LET l == loc[p]
           s == cores[l.s]
       IN  IF variant = "event" /\ eventPanics(s, l.entry, client)
           THEN /\ pc' = [pc EXCEPT ![p] = "idle"]
                /\ ret' = [ret EXCEPT ![p] = Returned("Write", "panic")]
                /\ loc' = [loc EXCEPT ![p] = Idle]
                /\ UNCHANGED <<captured, cores>>
           ELSE /\ pc' = [pc EXCEPT ![p] = "emitted"]
                /\ loc' = [loc EXCEPT ![p] =
                              l @@ [rec |-> IF variant = "event"
                                            THEN eventRecord(s, l.entry, l.fields, client,
                                                             scopeOf(l.hub))
                                            ELSE logRecord(s, l.entry, l.fields),
                                    captured |-> client]]
                /\ captured' = IF client THEN captured + 1 ELSE captured
                /\ cores' = writeLeaves(cores, l.s, l.fields)
                /\ UNCHANGED ret
    /\ UNCHANGED <<variant, client, flushes, cin, cout, hub>>

\* where Write triggers its flush: the deferred sentry.Flush runs when Write
\* returns, "go flushSentry()" follows Emit
flushPointEarly(p) == pc[p] \in {"checked", "emitted"}

flushPoint(p) == pc[p] = "emitted"

\* event variant: the deferred sentry.Flush(2 * time.Second) runs on the
\* caller's goroutine before Write returns
FlushSync(p) ==
    /\ variant = "event"
    /\ flushPoint(p)
    /\ pc' = [pc EXCEPT ![p] = "flushing"]
    /\ UNCHANGED <<variant, client, cores, loc, ret, captured, flushes, cin, cout, hub>>

\* event variant: the flush is over (done or timed out); Write or Sync returns nil
FlushEnd(p) ==
    /\ pc[p] = "flushing"
    /\ pc' = [pc EXCEPT ![p] = "idle"]
    /\ loc' = [loc EXCEPT ![p] = Idle]
    /\ ret' = [ret EXCEPT ![p] = Returned(IF loc[p].op = "Sync" THEN "Sync" ELSE "Write", "nil")]
    /\ UNCHANGED <<variant, client, cores, captured, flushes, cin, cout, hub>>

\* log variant: "go flushSentry()" and "return nil"
SpawnFlush(p) ==
    /\ variant = "log"
    /\ flushPoint(p)
    /\ flushes' = flushes + 1
    /\ pc' = [pc EXCEPT ![p] = "idle"]
    /\ loc' = [loc EXCEPT ![p] = Idle]
    /\ ret' = [ret EXCEPT ![p] = Returned("Write", "nil")]
    /\ UNCHANGED <<variant, client, cores, captured, cin, cout, hub>>

\* a detached flushSentry goroutine ends
FlushDone ==
    /\ flushes > 0
    /\ flushes' = flushes - 1
    /\ UNCHANGED <<variant, client, cores, pc, loc, ret, captured, cin, cout, hub>>

\* Sync: the event variant flushes on the caller, the log variant detached
Sync(p) ==
    /\ pc[p] = "idle"
    /\ flushes < MaxFlushes
    /\ IF variant = "event"
       THEN /\ pc' = [pc EXCEPT ![p] = "flushing"]
            /\ loc' = [loc EXCEPT ![p] = [op |-> "Sync"]]
            /\ ret' = [ret EXCEPT ![p] = NoReturn]
            /\ UNCHANGED flushes
       ELSE /\ flushes' = flushes + 1
            /\ ret' = [ret EXCEPT ![p] = Returned("Sync", "nil")]
            /\ UNCHANGED <<pc, loc>>
    /\ UNCHANGED <<variant, client, cores, captured, cin, cout, hub>>

----------------------------------------------------------------------------
(* The specifications.                                                     *)

\* one goroutine that derives each logger from the one derived last
\* (logger = logger.With(...)) and logs through any of them; the flushes of
\* the log variant run detached from it
Next ==
    \/ \E p \in {1} :
          \/ WithCall(p, WithFieldLists, {Len(cores)})
          \/ WithReturn(p)
          \/ StartSpan(p, {"span1"})
          \/ CheckCall(p, Entries, FieldLists)
          \/ Dropped(p)
          \/ ConfigureScope(p)
          \/ Write(p)
          \/ FlushSync(p)
          \/ FlushEnd(p)
          \/ SpawnFlush(p)
          \/ Sync(p)
    \/ FlushDone

Spec == Init /\ [][Next]_vars

\* two goroutines sharing the instances, each deriving from and logging
\* through any of them
NextConc ==
    \/ \E p \in Procs :
          \/ WithCall(p, ConcFieldLists, DOMAIN cores)
          \/ WithReturn(p)
          \/ CheckCall(p, ConcEntries, ConcLogFields)
          \/ Dropped(p)
          \/ ConfigureScope(p)
          \/ Write(p)
          \/ FlushSync(p)
          \/ FlushEnd(p)
          \/ SpawnFlush(p)
          \/ Sync(p)
    \/ FlushDone

\* sentry.Init has configured a client and the core was built WithStackTrace()
\* and with a minimum of info or error, which admits or drops the entry the
\* goroutines log; in the log-entry variant with the background context
InitConc ==
    /\ Init
    /\ client
    /\ cores[1].stackTrace
    /\ cores[1].min \in {InfoLevel, ErrorLevel}
    /\ cores[1].ctx \notin Spans

SpecConc == InitConc /\ [][NextConc]_vars

\* two entries with different callers, and no fields
HubEntries == {Entry(ErrorLevel, "m1", "", FALSE, ""), Entry(InfoLevel, "m2", "app", TRUE, "stk")}

\* two goroutines logging through the core of the event variant side by
\* side, a client configured
NextHub ==
    \E p \in Procs :
        \/ StartSpan(p, Spans)
        \/ CheckCall(p, HubEntries, {<<>>})
        \/ Dropped(p)
        \/ ConfigureScope(p)
        \/ Write(p)
        \/ FlushSync(p)
        \/ FlushEnd(p)

InitHub == Init /\ variant = "event" /\ client

SpecHub == InitHub /\ [][NextHub]_vars

----------------------------------------------------------------------------
(* The value coercion on its own.                                          *)

\* limb values at the edges of the 16-bit range and of the sign bit
EdgeLimbs == {0, 1, (LimbBase \div 2) - 1, LimbBase \div 2, LimbBase - 1}

EdgeU64 == {<<a, b, c, d>> : a \in EdgeLimbs, b \in {0, LimbBase - 1}, c \in {0, LimbBase - 1}, d \in EdgeLimbs}

\* signed payloads, as sign and magnitude
EdgeSigned ==
    {[neg |-> n, mag |-> <<0, 0, 0, d>>] : n \in BOOLEAN, d \in {1, LimbBase - 1}}
    \cup {[neg |-> FALSE, mag |-> Zero64]}

\* values of every type applyValue has a case for, of a struct type it has
\* none for, and the nil interface
CoerceInputs ==
    {Val(t, v) : t \in {"uint", "uint64"}, v \in EdgeU64}
    \cup {Val(t, <<0, 0, 0, d>>) : t \in {"uint8", "uint16", "uint32"}, d \in {0, 255}}
    \cup {Val("uint32", <<0, 0, LimbBase - 1, LimbBase - 1>>)}
    \cup {Val(t, v) : t \in {"int", "int8", "int16", "int32", "int64"}, v \in EdgeSigned}
    \cup {Val(t, v) : t \in {"string", "[]byte"}, v \in {"", "text"}}
    \cup {Val("bool", b) : b \in BOOLEAN}
    \cup {Val(t, v) : t \in {"float32", "float64"}, v \in {"0.0", "1.5"}}
    \cup {Val("time.Time", "2026-01-02T03:04:05.000000006Z"), Val("time.Duration", "1.5s"),
          Val("error", "error"), Val("fmt.Stringer", "rendered"),
          Val("struct", "{1 2}"), Val("nil", "<nil>")}

InitCoerce ==
    /\ variant = "coerce"
    /\ client = FALSE
    /\ cores = <<>>
    /\ pc = [p \in Procs |-> "idle"]
    /\ loc = [p \in Procs |-> Idle]
    /\ ret = [p \in Procs |-> NoReturn]
    /\ captured = 0
    /\ flushes = 0
    /\ cin \in CoerceInputs
    /\ cout = NoCall
    /\ hub = EmptyScope

\* applyValue(cin, sink)
Coerce ==
    /\ variant = "coerce"
    /\ cout = NoCall
    /\ cout' = applyValue(cin)
    /\ UNCHANGED <<variant, client, cores, pc, loc, ret, captured, flushes, cin, hub>>

SpecCoerce == InitCoerce /\ [][Coerce]_vars

----------------------------------------------------------------------------
(* Properties.                                                             *)

\* a step in which p's Write hands its record off
HandOff(p) == pc[p] \in {"checked", "scoped"} /\ pc'[p] = "emitted"

\* goroutine p is in a Write that has handed its record off
Handed(p) == pc[p] \in {"emitted", "flushing"} /\ loc[p].op = "Log"

\* C1: Check adds the core to the checked entry iff the entry's level is at
\* or above the instance's minimum level; Write, and so a record at the
\* backend, only ever follows an entry at or above that minimum, and with a
\* backend client configured the record of such an entry is captured.
C1_LevelGating ==
    \A p \in Procs :
        /\ pc[p] = "checked" =>
              (loc[p].added <=> loc[p].entry.level >= cores[loc[p].s].min)
        /\ Handed(p) =>
              /\ loc[p].entry.level >= cores[loc[p].s].min
              /\ loc[p].captured <=> client

\* C1 witness: with WithMinLevel(InfoLevel) and a client, an info entry has
\* been captured and a debug entry has just been refused by Check.
C1_Witness ==
    /\ client
    /\ cores[1].min = InfoLevel
    /\ captured = 1
    /\ pc[1] = "checked"
    /\ loc[1].entry.level = DebugLevel
    /\ ~loc[1].added

\* the severity the specification's mapper gives a level
SpecSeverity(lvl) ==
    IF lvl = DebugLevel THEN "debug"
    ELSE IF lvl = InfoLevel THEN "info"
    ELSE IF lvl = WarnLevel THEN "warning"
    ELSE IF lvl = ErrorLevel THEN "error"
    ELSE "fatal"

\* C2 as stated: in both variants the record's severity is debug, info,
\* warning, error for those levels and fatal for DPanic, Panic, Fatal and any
\* unrecognized level.
C2_SeverityBothVariants ==
    \A p \in Procs :
        Handed(p) => loc[p].rec.sev = SpecSeverity(loc[p].entry.level)

\* the accumulated context of an instance: its name -> value mapping
ContextOf(core) ==
    IF variant = "event" THEN core.fields ELSE SetAttributes(core.attributes)

\* the positions of a field list that hold data (not a SkipType marker)
DataAt(fields) == {i \in DOMAIN fields : fields[i].type # "SkipType"}

\* the last position of a field list that holds data under key k
LastAt(fields, k) ==
    CHOOSE i \in DataAt(fields) :
        /\ fields[i].key = k
        /\ \A j \in DataAt(fields) : fields[j].key = k => j <= i

\* a field's value as the variant stores it in a context
Stored(f) == IF variant = "event" THEN f.val ELSE [kind |-> "string", val |-> f.val.v]

\* a context merged with a field list, left to right
MergedWith(ctx, fields) ==
    LET new == {fields[i].key : i \in DataAt(fields)}
    IN  [k \in DOMAIN ctx \cup new |->
            IF k \in new THEN Stored(fields[LastAt(fields, k)]) ELSE ctx[k]]

\* C3: whatever the interleaving of the With calls, the instance built first
\* keeps its empty context and every derived instance holds exactly its
\* parent's context merged with the fields of its own With call, so that no
\* instance changes once built and none sees a sibling's fields.
C3_Independence ==
    \A i \in DOMAIN cores :
        IF cores[i].from = 0
        THEN ContextOf(cores[i]) = EmptyMap
        ELSE /\ cores[i].from < i
             /\ ContextOf(cores[i]) =
                    MergedWith(ContextOf(cores[cores[i].from]), cores[i].batch)

\* C3 witness: two With calls on the first instance overlapped (the second
\* began before the first had returned) with fields of different names, and
\* both have returned.
C3_Witness ==
    /\ Len(cores) = 3
    /\ cores[2].from = 1 /\ cores[3].from = 1
    /\ cores[3].seen = 1
    /\ DOMAIN ContextOf(cores[2]) = {"id"}
    /\ DOMAIN ContextOf(cores[3]) = {"func"}
    /\ \A p \in Procs : pc[p] = "idle"

\* C4 as stated: every instance derived by With has the minimum level and
\* the stack-trace policy of the instance NewSentryCore built.
C4_ConfigInherited ==
    \A i \in DOMAIN cores :
        /\ cores[i].min = cores[1].min
        /\ cores[i].stackTrace = cores[1].stackTrace

\* whether a record carries a stack or exception payload
HasStackPayload(rec) ==
    IF variant = "event" THEN rec.exception # <<>> ELSE "stacktrace" \in DOMAIN rec.extra

\* C5: the record Write produces carries a stack or exception payload iff the
\* instance's stack-trace policy is on and the entry's level is at least
\* error; in the event variant the payload is exactly one exception whose
\* value is the entry's message.
C5_StackTraceToggle ==
    \A p \in Procs :
        Handed(p) =>
            LET rec == loc[p].rec
                on == cores[loc[p].s].stackTrace /\ loc[p].entry.level >= ErrorLevel
            IN  /\ HasStackPayload(rec) <=> on
                /\ (variant = "event" /\ on) =>
                      /\ Len(rec.exception) = 1
                      /\ rec.exception[1].value = loc[p].entry.message

\* C5 witness: the event variant with the policy on has handed off an error
\* entry "m2" with one exception of that value.
C5_Witness ==
    /\ variant = "event"
    /\ Handed(1)
    /\ cores[loc[1].s].stackTrace
    /\ loc[1].entry.level = ErrorLevel
    /\ loc[1].entry.message = "m2"
    /\ Len(loc[1].rec.exception) = 1
    /\ loc[1].rec.exception[1].value = "m2"

\* the positions of a field list that hold a context carrier
CarriersAt(fields) ==
    {i \in DOMAIN fields : fields[i].type = "SkipType" /\ fields[i].iface \in Spans}

\* the handle a field list selects over an inherited one
Selected(fields, inherited) ==
    IF CarriersAt(fields) = {} THEN inherited
    ELSE fields[CHOOSE i \in CarriersAt(fields) : \A j \in CarriersAt(fields) : j <= i].iface

\* C6 as stated: in both variants the handle of the instance With returns,
\* and of the record Write produces, is that of the last context carrier of
\* the field list when there is one and otherwise the one of the instance the
\* call was made on; it is never reset.
C6_HandleSelection ==
    /\ \A i \in DOMAIN cores :
          cores[i].from # 0 =>
              cores[i].ctx = Selected(cores[i].batch, cores[cores[i].from].ctx)
    /\ \A p \in Procs :
          Handed(p) => loc[p].rec.trace = Selected(loc[p].fields, cores[loc[p].s].ctx)

\* C7 as stated: a record written with a carrier field is linked to that
\* carrier's span, and the marker's key is in no accumulated context and in
\* no record's extra data.
C7_TracePropagation ==
    /\ \A i \in DOMAIN cores : "ctx" \notin DOMAIN ContextOf(cores[i])
    /\ \A p \in Procs :
          Handed(p) =>
              /\ "ctx" \notin DOMAIN loc[p].rec.extra
              /\ CarriersAt(loc[p].fields) # {} =>
                    loc[p].rec.trace = Selected(loc[p].fields, "none")

\* C8: Write and Sync never return anything but nil, and without a backend
\* client no record is captured, whatever the level and the policy.
C8_Infallible ==
    /\ \A p \in Procs : ret[p].err \in {"none", "nil"}
    /\ ~client =>
          /\ captured = 0
          /\ \A p \in Procs : Handed(p) => ~loc[p].captured

\* C8 witness: without a client, an instance with the stack-trace policy on
\* and minimum error (so an entry that takes the exception path) has
\* returned nil from Write in the event variant.
C8_Witness ==
    /\ ~client
    /\ variant = "event"
    /\ Len(cores) = 1
    /\ cores[1].stackTrace
    /\ cores[1].min = ErrorLevel
    /\ ret[1] = Returned("Write", "nil")
    /\ captured = 0

\* C9 as stated: the caller of Write or Sync is never inside the backend
\* flush; the flush runs detached.
C9_NonBlocking ==
    \A p \in Procs : pc[p] # "flushing"

\* decimal digits read back as a uint64, or "overflow"
MulAdd10(l, d) ==
    LET c4 == l[4] * 10 + d
        c3 == l[3] * 10 + (c4 \div LimbBase)
        c2 == l[2] * 10 + (c3 \div LimbBase)
        c1 == l[1] * 10 + (c2 \div LimbBase)
    IN  <<c1, c2 % LimbBase, c3 % LimbBase, c4 % LimbBase>>

RECURSIVE ParseDecimal(_)
ParseDecimal(ds) ==
    IF ds = <<>> THEN Zero64
    ELSE MulAdd10(ParseDecimal(SubSeq(ds, 1, Len(ds) - 1)), ds[Len(ds)])

\* ds is the decimal representation of the uint64 l
IsDecimalOf(ds, l) ==
    /\ Len(ds) >= 1
    /\ \A i \in DOMAIN ds : ds[i] \in 0 .. 9
    /\ Len(ds) > 1 => ds[1] # 0
    /\ ParseDecimal(ds) = l

\* C10: a uint or uint64 above math.MaxInt64 (its top bit set) goes to the
\* sink as the string of its decimal digits; any other goes as an int64 of
\* the same value.
C10_UnsignedOverflow ==
    (cout # NoCall /\ cin.t \in {"uint", "uint64"}) =>
        IF cin.v[1] >= LimbBase \div 2
        THEN cout[1].set = "SetString" /\ IsDecimalOf(cout[1].val, cin.v)
        ELSE cout[1].set = "SetInt64" /\ cout[1].val = [neg |-> FALSE, mag |-> cin.v]

\* C10 witness: math.MaxInt64 + 1 has been coerced to a string of 19 digits.
C10_Witness ==
    /\ cin = Val("uint64", <<LimbBase \div 2, 0, 0, 0>>)
    /\ cout # NoCall
    /\ cout[1].set = "SetString"
    /\ Len(cout[1].val) = 19

\* the left-to-right merge of the batches of the With calls that led to
\* instance i
RECURSIVE ChainMerge(_)
ChainMerge(i) ==
    IF cores[i].from = 0 THEN EmptyMap
    ELSE MergedWith(ChainMerge(cores[i].from), cores[i].batch)

\* the attributes the log-entry variant's Write adds for the entry itself
EntryMetadata(s, entry) ==
    [k \in ({n \in {"logger"} : entry.loggerName # ""}
            \cup {n \in {"caller.file", "caller.line"} : entry.caller.defined}
            \cup {n \in {"stacktrace"} : s.stackTrace /\ entry.level >= ErrorLevel}) |->
        CASE k = "logger" -> [kind |-> "string", val |-> entry.loggerName]
          [] k = "caller.file" -> [kind |-> "string", val |-> entry.caller.file]
          [] k = "caller.line" -> [kind |-> "int64", val |-> entry.caller.line]
          [] k = "stacktrace" ->
                [kind |-> "string",
                 val |-> IF entry.stack = "" THEN "debug.Stack()" ELSE entry.stack]]

\* C11 as stated: in both variants the extra/attribute map of a written
\* record equals the merge of the With batches and then the call's fields.
C11_ExtraIsMerge ==
    \A p \in Procs :
        Handed(p) =>
            loc[p].rec.extra = MergedWith(ChainMerge(loc[p].s), loc[p].fields)

\* C11: the extra map of a record of the event variant equals the
\* left-to-right merge of the With batches and then the call's fields, the
\* last value given for a name winning; the attribute map of a record of
\* the log-entry variant equals that merge overlaid with the attributes
\* Write adds for the entry (logger, caller.file, caller.line, stacktrace),
\* which win over a field of the same name.
C11_FieldFidelity ==
    \A p \in Procs :
        Handed(p) =>
            LET m == MergedWith(ChainMerge(loc[p].s), loc[p].fields)
                md == EntryMetadata(cores[loc[p].s], loc[p].entry)
            IN  loc[p].rec.extra =
                    IF variant = "event" THEN m
                    ELSE [k \in DOMAIN m \cup DOMAIN md |->
                             IF k \in DOMAIN md THEN md[k] ELSE m[k]]

\* C11 witness: the log-entry variant has written, through an instance two
\* With calls deep whose batches both name "id", an entry with a logger name
\* and fields that name "logger": the last "id" and the entry's name won.
C11_Witness ==
    /\ variant = "log"
    /\ Handed(1)
    /\ loc[1].s = 3
    /\ \A i \in {2, 3} : "id" \in DOMAIN ContextOf(cores[i])
    /\ ContextOf(cores[2])["id"] # ContextOf(cores[3])["id"]
    /\ loc[1].rec.extra["id"] = ContextOf(cores[3])["id"]
    /\ \E i \in DOMAIN loc[1].fields : loc[1].fields[i].key = "logger"
    /\ loc[1].entry.loggerName = "app"
    /\ loc[1].rec.extra["logger"] = [kind |-> "string", val |-> "app"]

\* the output kind by the precedence of the specification, first match wins
SpecKind(value) ==
    IF value.t \in {"time.Time", "time.Duration"} THEN "string"
    ELSE IF value.t \in {"string", "[]byte", "error", "fmt.Stringer"} THEN "string"
    ELSE IF value.t = "bool" THEN "bool"
    ELSE IF value.t \in {"int", "int8", "int16", "int32", "int64"} THEN "int64"
    ELSE IF value.t \in {"uint", "uint8", "uint16", "uint32", "uint64"}
         THEN IF value.v[1] >= LimbBase \div 2 THEN "string" ELSE "int64"
    ELSE IF value.t \in {"float32", "float64"} THEN "float64"
    ELSE "string"

\* C12: for every value applyValue calls exactly one setter of the sink,
\* once, and the kind that setter leaves is the one the specification's
\* precedence gives the value's type: string, bool, int64 or float64, with a
\* type that has no case going to the string fallback.
C12_CoercionTotal ==
    cout # NoCall =>
        /\ Len(cout) = 1
        /\ sinkKind(cout[1]) = SpecKind(cin)
        /\ sinkKind(cout[1]) \in {"string", "bool", "int64", "float64"}
        /\ cin.t \in {"struct", "nil"} => cout[1] = Call("SetString", [sprint |-> cin.v])

\* C12 witness: a value of a struct type, for which applyValue has no case,
\* has gone to the sink as one string.
C12_Witness ==
    /\ cin.t = "struct"
    /\ Len(cout) = 1
    /\ cout[1].set = "SetString"

\* the stack a record carries: the stacktrace of its exception (event
\* variant) or its "stacktrace" attribute (log-entry variant)
AttachedStack(rec) ==
    IF variant = "event" THEN rec.exception[1].stacktrace ELSE rec.extra["stacktrace"].val

\* a stack captured inside Write, as each variant's record shows it
FreshStack == IF variant = "event" THEN "captured" ELSE "debug.Stack()"

\* C13 as stated: a record with a stack attached carries the stack of the
\* entry when the entry has one, and a freshly captured one only otherwise.
C13_StackPreference ==
    \A p \in Procs :
        (Handed(p) /\ HasStackPayload(loc[p].rec)) =>
            AttachedStack(loc[p].rec) =
                IF loc[p].entry.stack # "" THEN loc[p].entry.stack ELSE FreshStack

\* the handle instance i was built with: that of the last carrier of the
\* With batches that led to it, the one NewSentryCore kept when there is none
RECURSIVE ChainHandle(_)
ChainHandle(i) ==
    IF cores[i].from = 0 THEN cores[i].ctx
    ELSE Selected(cores[i].batch, ChainHandle(cores[i].from))

\* a record holds nothing but what the instance was built with, what its own
\* call supplied and what its own entry says
OwnRecordOnly ==
    \A p \in Procs :
        Handed(p) =>
            LET l == loc[p]
            IN  /\ DOMAIN l.rec.extra \subseteq
                        DOMAIN ChainMerge(l.s)
                        \cup {l.fields[i].key : i \in DataAt(l.fields)}
                        \cup DOMAIN EntryMetadata(cores[l.s], l.entry)
                /\ \A k \in DOMAIN l.rec.extra \ DOMAIN EntryMetadata(cores[l.s], l.entry) :
                        k \notin {l.fields[i].key : i \in DataAt(l.fields)} =>
                            l.rec.extra[k] = ChainMerge(l.s)[k]
                /\ variant = "log" => l.rec.trace = Selected(l.fields, ChainHandle(l.s))
                /\ l.rec.message = l.entry.message

\* no step changes an instance that exists, and the hand-off of a Write
\* leaves the entry and the fields of the call as they were
InstancesFrozen ==
    /\ \A i \in DOMAIN cores : i \in DOMAIN cores' /\ cores'[i] = cores[i]
    /\ \A p \in Procs :
          HandOff(p) =>
              /\ loc'[p].entry = loc[p].entry
              /\ loc'[p].fields = loc[p].fields
              /\ loc'[p].s = loc[p].s

\* C14: Write leaves the accumulated context, the handle, the minimum level
\* and the stack-trace policy of every instance, and the entry, as they
\* were; so the record of a Write holds, besides what the instance was built
\* with, only the fields and the carrier of its own call, never those of an
\* earlier Write.
C14_WriteTransient == []OwnRecordOnly /\ [][InstancesFrozen]_vars

\* C14 witness: after an earlier record was captured, the log-entry variant
\* has handed off a Write whose own fields name "id" and carry span1, on an
\* instance that still has no "id" and still has the background context.
C14_Witness ==
    /\ variant = "log"
    /\ captured = 2
    /\ Handed(1)
    /\ loc[1].rec.trace = "span1"
    /\ "id" \in DOMAIN loc[1].rec.extra
    /\ "id" \notin DOMAIN ContextOf(cores[loc[1].s])
    /\ cores[loc[1].s].ctx = Background

\* a step in which the flush of p's Write is triggered
FlushTriggered(p) ==
    /\ loc[p].op = "Log"
    /\ \/ pc[p] # "flushing" /\ pc'[p] = "flushing"
       \/ variant = "log" /\ pc[p] # "idle" /\ pc'[p] = "idle" /\ flushes' = flushes + 1

\* a step in which p calls Sync
SyncCalled(p) ==
    /\ pc[p] = "idle"
    /\ \/ pc'[p] = "flushing" /\ loc'[p].op = "Sync"
       \/ ret'[p] = Returned("Sync", "nil") /\ pc'[p] = "idle" /\ flushes' > flushes

\* the order of the steps of one call
StepOrder ==
    /\ \A p \in Procs :
          /\ FlushTriggered(p) =>
                /\ pc[p] = "emitted"
                /\ "rec" \in DOMAIN loc[p]
                /\ captured' = captured
          /\ HandOff(p) =>
                /\ captured' = IF client THEN captured + 1 ELSE captured
                /\ flushes' = flushes
          /\ SyncCalled(p) =>
                /\ captured' = captured
                /\ IF variant = "log" THEN flushes' = flushes + 1 ELSE flushes' = flushes
    /\ captured' # captured =>
          /\ captured' = captured + 1
          /\ Cardinality({p \in Procs : HandOff(p)}) = 1
    /\ flushes' > flushes => flushes' = flushes + 1

\* C15: a Write hands exactly one record to the backend client (the hub or
\* the logger), its flush is triggered only once that record has been
\* handed off and never in the step that hands it off, and a Sync triggers
\* one flush and hands off no record.
C15_StepOrder == [][StepOrder]_vars

\* C15 witness: the event variant is in the flush of a Write whose record
\* the backend has received.
C15_Witness ==
    /\ variant = "event"
    /\ pc[1] = "flushing"
    /\ loc[1].op = "Log"
    /\ loc[1].captured
    /\ captured = 1

\* the names the With batches and the call's own fields give a record
FieldNames(p) == DOMAIN MergedWith(ChainMerge(loc[p].s), loc[p].fields)

\* the logger name a record carries, "" when it carries none
LoggerOf(p) ==
    IF variant = "event" THEN loc[p].rec.logger
    ELSE IF "logger" \in DOMAIN loc[p].rec.extra
              /\ ~("logger" \in FieldNames(p) /\ loc[p].entry.loggerName = "")
         THEN loc[p].rec.extra["logger"].val
         ELSE ""

\* the caller data a record carries, as name -> value
CallerOf(p) ==
    IF variant = "event" THEN loc[p].rec.tags
    ELSE [k \in DOMAIN loc[p].rec.extra \cap {"caller.file", "caller.line"} |->
             loc[p].rec.extra[k].val]

\* C16 as stated: a record carries the entry's logger name iff that name is
\* not empty, and caller file and line iff the entry's caller is defined;
\* without a defined caller it carries no caller value at all.
C16_OptionalMetadata ==
    \A p \in Procs :
        Handed(p) =>
            /\ LoggerOf(p) = loc[p].entry.loggerName
            /\ IF loc[p].entry.caller.defined
               THEN Cardinality(DOMAIN CallerOf(p)) = 2
               ELSE DOMAIN CallerOf(p) = {}

\* C17: in the event variant the tags of every event handed off are the
\* caller file and line of its own entry, whatever other Write is in flight
\* at the time, and the scope of the global hub keeps the tags it had.
C17_TagIsolation ==
    /\ hub.tags = EmptyMap
    /\ \A p \in Procs :
          (variant = "event" /\ Handed(p)) =>
              /\ DOMAIN loc[p].rec.tags = {"file", "line"}
              /\ loc[p].rec.tags["file"] = loc[p].entry.caller.file
              /\ loc[p].rec.tags["line"] = ToString(loc[p].entry.caller.line)

\* C17 witness: goroutine 1 stands between setting the tags of its entry on
\* its clone and its CaptureEvent, while goroutine 2, writing an entry with
\* another caller, has handed off an event with its own tags.
C17_Witness ==
    /\ variant = "event"
    /\ pc[1] = "scoped"
    /\ loc[1].hub.scope.tags["line"] = "42"
    /\ Handed(2)
    /\ ~loc[2].entry.caller.defined
    /\ loc[2].rec.tags["line"] = "0"
    /\ hub.tags = EmptyMap

====
